---- MODULE Spec2Model ----
(***************************************************************************)
(* Model of moveit/scripts/create_deprecated_headers.py: the batch run     *)
(* that discovers .hpp headers, parses each one (HppFile), summarises the  *)
(* outcome (HeaderSummary), optionally asks for confirmation and writes    *)
(* one deprecated .h alias per parsed header (DeprecatedHeader).           *)
(*                                                                         *)
(* Text is a TLA+ string handled character by character; a path is the     *)
(* sequence of the segments of an absolute path (<<>> is the root "/").    *)
(* A call that can raise returns [ok |-> TRUE, value |-> v] or             *)
(* [ok |-> FALSE, exc |-> name of the exception class].                    *)
(***************************************************************************)
EXTENDS Integers, Sequences, FiniteSets, TLC

VARIABLES
    pc,              \* position of __main__
    argv_apply,      \* --apply as given on the command line
    apply,           \* args.apply (overwritten by the prompt's answer)
    fs,              \* the file system: path -> text of the file
    fs0,             \* the file system when the run started
    hpp_paths,       \* DeprecatedHeaderGenerator.hpp_paths
    processed_hpps,  \* DeprecatedHeaderGenerator.processed_hpps
    bad_hpps,        \* DeprecatedHeaderGenerator.bad_hpps
    raised,          \* per candidate handled: the exception HppFile raised, or "none"
    i,               \* next candidate of the comprehension in process_all_hpps
    summary,         \* the HeaderSummary returned by process_all_hpps
    prompted,        \* number of times input() was called
    answer,          \* what the user typed at the prompt
    h_files,         \* the DeprecatedHeader list of create_h_files
    j,               \* next header of the writing comprehension in create_h_files
    writes,          \* the open(..., "w").write(...) calls made, in order
    out              \* what was printed, one entry per print/input call

vars == <<pc, argv_apply, apply, fs, fs0, hpp_paths, processed_hpps, bad_hpps,
          raised, i, summary, prompted, answer, h_files, j, writes, out>>

-----------------------------------------------------------------------------
(* Bounds of the model *)

\* files in the tree of a batch run
MaxFiles == 2
\* directory depth of the single-file runs
MaxDepth == 2
\* pieces a single-file run's header text is made of
MaxPieces == 2

-----------------------------------------------------------------------------
(* Python str operations *)

MinOf(S) == CHOOSE x \in S : \A y \in S : x <= y

\* str.find: the lowest 0-based index of match in data, -1 when absent
Find(data, match) ==
    LET hits == {k \in 0..(Len(data) - Len(match)) :
                    SubSeq(data, k + 1, k + Len(match)) = match}
    IN  IF hits = {} THEN -1 ELSE MinOf(hits)

\* str.rfind: the highest such index, -1 when absent
RFind(data, match) ==
    LET hits == {k \in 0..(Len(data) - Len(match)) :
                    SubSeq(data, k + 1, k + Len(match)) = match}
    IN  IF hits = {} THEN -1 ELSE CHOOSE x \in hits : \A y \in hits : y <= x

\* match in data
Contains(data, match) == Find(data, match) # -1

\* data[:k] for k >= 0
Prefix(data, k) == SubSeq(data, 1, IF k < Len(data) THEN k ELSE Len(data))

\* data[k:] for k >= 0
Suffix(data, k) == SubSeq(data, k + 1, Len(data))

\* str.endswith
EndsWith(s, suf) ==
    /\ Len(s) >= Len(suf)
    /\ SubSeq(s, Len(s) - Len(suf) + 1, Len(s)) = suf

\* str.rstrip(ch) for a one-character ch
RECURSIVE RStrip(_, _)
RStrip(s, ch) ==
    IF Len(s) > 0 /\ SubSeq(s, Len(s), Len(s)) = ch
    THEN RStrip(SubSeq(s, 1, Len(s) - 1), ch)
    ELSE s

\* sep.join(items)
RECURSIVE Join(_, _)
Join(items, sep) ==
    IF items = <<>> THEN ""
    ELSE IF Len(items) = 1 THEN items[1]
    ELSE items[1] \o sep \o Join(Tail(items), sep)

\* template.format(arg) for a template with one "{}" field
Format(template, arg) ==
    LET k == Find(template, "{}")
    IN  Prefix(template, k) \o arg \o Suffix(template, k + 2)

\* str.lower on the letters the prompt's answers are made of
LowerChar(c) ==
    CASE c = "Y" -> "y"
      [] c = "N" -> "n"
      [] c = "E" -> "e"
      [] c = "S" -> "s"
      [] OTHER -> c

RECURSIVE Lower(_)
Lower(s) ==
    IF Len(s) = 0 THEN ""
    ELSE LowerChar(SubSeq(s, 1, 1)) \o Lower(SubSeq(s, 2, Len(s)))

-----------------------------------------------------------------------------
(* pathlib.Path operations on absolute paths *)

\* str(path)
RECURSIVE PathStr(_)
PathStr(p) ==
    IF p = <<>> THEN "/"
    ELSE IF Len(p) = 1 THEN "/" \o p[1]
    ELSE PathStr(SubSeq(p, 1, Len(p) - 1)) \o "/" \o p[Len(p)]

\* Path.name
Name(p) == p[Len(p)]

\* Path.parent
Parent(p) == SubSeq(p, 1, Len(p) - 1)

\* Path.parents: the ancestors, nearest first, the root last
Parents(p) == [k \in 1..Len(p) |-> SubSeq(p, 1, Len(p) - k)]

\* Path.relative_to(base), for base an ancestor of p: the remaining segments
RelativeTo(p, base) == SubSeq(p, Len(base) + 1, Len(p))

\* str() of a relative path
RelStr(rel) == Join(rel, "/")

\* PurePath.suffix: the last dot-separated part of the name, dot included,
\* when that dot is neither the first nor the last character of the name
PathSuffix(p) ==
    LET name == Name(p)
        k == RFind(name, ".")
    IN  IF 0 < k /\ k < Len(name) - 1 THEN Suffix(name, k) ELSE ""

\* variant: the suffix is appended to the whole name
WithSuffixAppend(p, suffix) == Parent(p) \o <<Name(p) \o suffix>>

\* PurePath.with_suffix
WithSuffix(p, suffix) ==
    LET name == Name(p)
        old == PathSuffix(p)
    IN  IF old = ""
        THEN Parent(p) \o <<name \o suffix>>
        ELSE Parent(p) \o <<Prefix(name, Len(name) - Len(old)) \o suffix>>

\* Path.cwd().rglob("*.hpp") keeps the files whose name matches *.hpp
MatchesHpp(p) == EndsWith(Name(p), ".hpp")

-----------------------------------------------------------------------------
(* Module constants *)

ProgramName == "create_deprecated_headers.py"

DISCLAIMER ==
    "\n"
    \o "/*********************************************************************\n"
    \o " * All MoveIt 2 headers have been updated to use the .hpp extension.\n"
    \o " *\n"
    \o " * .h headers are now autogenerated via {},\n"
    \o " * and will import the corresponding .hpp with a deprecation warning.\n"
    \o " *\n"
    \o " * imports via .h files may be removed in future releases, so please\n"
    \o " * modify your imports to use the corresponding .hpp imports.\n"
    \o " *\n"
    \o " * See https://github.com/moveit/moveit2/pull/3113 for extra details.\n"
    \o " *********************************************************************/\n"

Guard == "#pragma once"

Warn == "#pragma message(\".h header is obsolete. Please use the .hpp header instead.\")"

Ok(v) == [ok |-> TRUE, value |-> v]
Raise(e) == [ok |-> FALSE, exc |-> e]

-----------------------------------------------------------------------------
(* class HppFile *)

\* HppFile.drop_data_after
drop_data_after(data, match) == Prefix(data, Find(data, match) + Len(match))

\* variant: the guard is not looked for
ReadNoCheck(files, path) == Ok(files[path])

\* HppFile.read
Read(files, path) ==
    LET data == files[path]
    IN  IF ~Contains(data, Guard) THEN Raise("NoIncludeGuard") ELSE Ok(data)

\* HppFile.pretext
Pretext(files, path) ==
    LET data == Read(files, path)
    IN  IF ~data.ok THEN data ELSE Ok(drop_data_after(data.value, Guard))

\* the lambda of HppFile.include
ends_with_include(p) == EndsWith(PathStr(p), "include")

\* include_paths of HppFile.include
IncludePaths(path) == SelectSeq(Parents(path), ends_with_include)

\* HppFile.include
Include(path) ==
    LET include_paths == IncludePaths(path)
    IN  IF include_paths = <<>> THEN Raise("NoIncludeDirectory")
        ELSE Ok("#include <" \o RelStr(RelativeTo(path, include_paths[1])) \o ">")

\* HppFile.__init__: the pretext is computed first, then the include
HppFile(files, path) ==
    LET pre == Pretext(files, path)
    IN  IF ~pre.ok THEN pre
        ELSE LET inc == Include(path)
             IN  IF ~inc.ok THEN inc
                 ELSE Ok([path |-> path, pretext |-> pre.value, include |-> inc.value])

-----------------------------------------------------------------------------
(* class DeprecatedHeader *)

\* disclaimer of DeprecatedHeader.contents
Disclaimer == RStrip(Format(DISCLAIMER, ProgramName), "\n")

\* DeprecatedHeader.contents
Contents(hpp) ==
    LET items == <<Disclaimer, hpp.pretext, Warn, hpp.include>>
    IN  Join(items, "\n") \o "\n"

\* DeprecatedHeader.__init__
DeprecatedHeader(hpp) ==
    [hpp |-> hpp, path |-> WithSuffix(hpp.path, ".h"), contents |-> Contents(hpp)]

-----------------------------------------------------------------------------
(* class HeaderSummary *)

HeaderSummary(n, bad) == [n_processed_hpps |-> n, bad_hpps |-> bad]

\* variant: failures are not counted
were_all_hpps_processed_always(s) == TRUE

\* HeaderSummary.were_all_hpps_processed
were_all_hpps_processed(s) == Len(s.bad_hpps) = 0

-----------------------------------------------------------------------------
(* The trees the runs start from *)

\* a tree of a few representative files, for the runs over several files
BatchPaths ==
    { <<"ws", "include", "pkg", "foo.hpp">>,
      <<"ws", "include", "pkg", "foo.h">>,
      <<"ws", "src", "bar.hpp">>,
      <<"ws", "myinclude", "foo.hpp">>,
      <<"ws", "include", ".hpp">>,
      <<"ws", "include", "pkg", "include", "a.b.hpp">> }

BatchTexts ==
    { "#pragma once\nint x;",
      "// c\n#pragma once\n#pragma once\nint y;\n",
      "int x;\n",
      "" }

\* the directories and file names of the runs over one file
DirNames == {"include", "myinclude", "src"}

Dirs == UNION {[1..n -> DirNames] : n \in 0..MaxDepth}

FileNames == {"foo.hpp", ".hpp"}

Pieces == {"#pragma once", "#pragma ", "once", "x\n"}

RECURSIVE TextsOf(_)
TextsOf(n) ==
    IF n = 0 THEN {""}
    ELSE LET shorter == TextsOf(n - 1)
         IN  shorter \cup {t \o p : t \in shorter, p \in Pieces}

\* what the user may type at the prompt
Answers == {"y", "Y", "n", "yes", ""}

\* the orders in which rglob may yield the files of S
Orderings(S) ==
    {s \in [1..Cardinality(S) -> S] : \A a, b \in 1..Cardinality(S) : s[a] = s[b] => a = b}

\* the files a tree may hold
KnownFiles ==
    (BatchPaths \X BatchTexts)
        \cup ({d \o <<name>> : d \in Dirs, name \in FileNames} \X TextsOf(MaxPieces))

\* HppFile(path) for a file of the given path and text, as a table; TLC builds
\* the table once when it compares it
HppFileOf ==
    LET table == [f \in KnownFiles |-> HppFile(f[1] :> f[2], f[1])]
    IN  IF table = table THEN table ELSE table

-----------------------------------------------------------------------------
(* __main__ *)

InitRest ==
    /\ pc = "discover"
    /\ argv_apply \in BOOLEAN
    /\ apply = argv_apply
    /\ fs0 = fs
    /\ hpp_paths = <<>>
    /\ processed_hpps = <<>>
    /\ bad_hpps = <<>>
    /\ raised = <<>>
    /\ i = 1
    /\ summary = <<>>
    /\ prompted = 0
    /\ answer = ""
    /\ h_files = <<>>
    /\ j = 1
    /\ writes = <<>>
    /\ out = <<>>

InitBatch ==
    /\ \E D \in SUBSET BatchPaths :
          /\ Cardinality(D) <= MaxFiles
          /\ fs \in [D -> BatchTexts]
    /\ InitRest

InitSingle ==
    /\ \E d \in Dirs, name \in FileNames, text \in TextsOf(MaxPieces) :
          fs = [p \in {d \o <<name>>} |-> text]
    /\ InitRest

Init == InitBatch \/ InitSingle

\* generator = DeprecatedHeaderGenerator(list(Path.cwd().rglob("*.hpp")))
Discover ==
    /\ pc = "discover"
    /\ hpp_paths' \in Orderings({p \in DOMAIN fs : MatchesHpp(p)})
    /\ processed_hpps' = <<>>
    /\ bad_hpps' = <<>>
    /\ out' = Append(out, "Processing")
    /\ pc' = "parse"
    /\ UNCHANGED <<argv_apply, apply, fs, fs0, raised, i, summary, prompted,
                   answer, h_files, j, writes>>

\* variant: the except clause names one exception only
CaughtOnlyDirectory == {"NoIncludeDirectory"}

\* the except clause of __process_hpp
Caught == {"NoIncludeDirectory", "NoIncludeGuard"}

\* variant: a failure ends the comprehension instead of being isolated
ProcessHppStopsAtFailure ==
    /\ pc = "parse"
    /\ i <= Len(hpp_paths)
    /\ LET hpp == hpp_paths[i]
           r == HppFileOf[<<hpp, fs[hpp]>>]
       IN  IF r.ok
           THEN /\ processed_hpps' = Append(processed_hpps, r.value)
                /\ raised' = Append(raised, "none")
                /\ i' = i + 1
                /\ UNCHANGED bad_hpps
           ELSE /\ bad_hpps' = Append(bad_hpps, PathStr(hpp))
                /\ raised' = Append(raised, r.exc)
                /\ i' = Len(hpp_paths) + 1
                /\ UNCHANGED processed_hpps
    /\ UNCHANGED <<pc, argv_apply, apply, fs, fs0, hpp_paths, summary, prompted,
                   answer, h_files, j, writes, out>>

\* DeprecatedHeaderGenerator.__process_hpp on the next candidate of
\* process_all_hpps; an exception the except clause does not name leaves
\* __main__ with a traceback
ProcessHpp ==
    /\ pc = "parse"
    /\ i <= Len(hpp_paths)
    /\ LET hpp == hpp_paths[i]
           r == HppFileOf[<<hpp, fs[hpp]>>]
       IN  IF r.ok
           THEN /\ processed_hpps' = Append(processed_hpps, r.value)
                /\ raised' = Append(raised, "none")
                /\ i' = i + 1
                /\ UNCHANGED <<bad_hpps, pc>>
           ELSE IF r.exc \in Caught
           THEN /\ bad_hpps' = Append(bad_hpps, PathStr(hpp))
                /\ raised' = Append(raised, r.exc)
                /\ i' = i + 1
                /\ UNCHANGED <<processed_hpps, pc>>
           ELSE /\ raised' = Append(raised, r.exc)
                /\ pc' = "crashed"
                /\ UNCHANGED <<processed_hpps, bad_hpps, i>>
    /\ UNCHANGED <<argv_apply, apply, fs, fs0, hpp_paths, summary, prompted,
                   answer, h_files, j, writes, out>>

\* the return of process_all_hpps, and print(summary)
Summarise ==
    /\ pc = "parse"
    /\ i > Len(hpp_paths)
    /\ summary' = <<HeaderSummary(Len(processed_hpps), bad_hpps)>>
    /\ out' = Append(out, "Summary")
    /\ pc' = "gate"
    /\ UNCHANGED <<argv_apply, apply, fs, fs0, hpp_paths, processed_hpps,
                   bad_hpps, raised, i, prompted, answer, h_files, j, writes>>

\* the condition of the first if of __main__
NeedsPrompt == apply /\ ~were_all_hpps_processed(summary[1])

\* args.apply = input("Continue? (y/n): ").lower() == "y"
Prompt ==
    /\ pc = "gate"
    /\ NeedsPrompt
    /\ \E a \in Answers :
          /\ answer' = a
          /\ apply' = (Lower(a) = "y")
    /\ prompted' = prompted + 1
    /\ out' = Append(out, "Continue?")
    /\ pc' = "branch"
    /\ UNCHANGED <<argv_apply, fs, fs0, hpp_paths, processed_hpps, bad_hpps,
                   raised, i, summary, h_files, j, writes>>

\* the first if of __main__ not taken
NoPrompt ==
    /\ pc = "gate"
    /\ ~NeedsPrompt
    /\ pc' = "branch"
    /\ UNCHANGED <<argv_apply, apply, fs, fs0, hpp_paths, processed_hpps,
                   bad_hpps, raised, i, summary, prompted, answer, h_files, j,
                   writes, out>>

\* variant: the write phase is not gated by args.apply
ShouldWriteAlways == TRUE

\* the condition of the second if of __main__
ShouldWrite == apply

\* create_h_files up to the list of DeprecatedHeader
CreateHFiles ==
    /\ pc = "branch"
    /\ ShouldWrite
    /\ out' = Append(out, "Proceeding")
    /\ h_files' = [k \in 1..Len(processed_hpps) |-> DeprecatedHeader(processed_hpps[k])]
    /\ j' = 1
    /\ pc' = "write"
    /\ UNCHANGED <<argv_apply, apply, fs, fs0, hpp_paths, processed_hpps,
                   bad_hpps, raised, i, summary, prompted, answer, writes>>

\* open(path, "w").write(contents): the file is created or truncated
WriteFile(files, path, contents) ==
    [p \in DOMAIN files \cup {path} |-> IF p = path THEN contents ELSE files[p]]

\* one element of the writing comprehension of create_h_files
WriteH ==
    /\ pc = "write"
    /\ j <= Len(h_files)
    /\ fs' = WriteFile(fs, h_files[j].path, h_files[j].contents)
    /\ writes' = Append(writes, [path |-> h_files[j].path, contents |-> h_files[j].contents])
    /\ j' = j + 1
    /\ UNCHANGED <<pc, argv_apply, apply, fs0, hpp_paths, processed_hpps,
                   bad_hpps, raised, i, summary, prompted, answer, h_files, out>>

\* create_h_files returns; print("Done.\n")
FinishWrite ==
    /\ pc = "write"
    /\ j > Len(h_files)
    /\ out' = Append(out, "Done")
    /\ pc' = "done"
    /\ UNCHANGED <<argv_apply, apply, fs, fs0, hpp_paths, processed_hpps,
                   bad_hpps, raised, i, summary, prompted, answer, h_files, j,
                   writes>>

\* print("Skipping file generation..."); print("Done.\n")
Skip ==
    /\ pc = "branch"
    /\ ~ShouldWrite
    /\ out' = out \o <<"Skipping", "Done">>
    /\ pc' = "done"
    /\ UNCHANGED <<argv_apply, apply, fs, fs0, hpp_paths, processed_hpps,
                   bad_hpps, raised, i, summary, prompted, answer, h_files, j,
                   writes>>

Next ==
    \/ Discover
    \/ ProcessHpp
    \/ Summarise
    \/ Prompt
    \/ NoPrompt
    \/ CreateHFiles
    \/ WriteH
    \/ FinishWrite
    \/ Skip

Spec == Init /\ [][Next]_vars

\* the interpreter runs the script to its end: a step that can be taken is taken
LiveSpec == Spec /\ WF_vars(Next)

-----------------------------------------------------------------------------
(* Vocabulary of the properties *)

\* s begins with pre
StartsWith(s, pre) == Len(s) >= Len(pre) /\ SubSeq(s, 1, Len(pre)) = pre

\* the parts of s between the occurrences of the one-character sep
RECURSIVE Split(_, _)
Split(s, sep) ==
    LET k == Find(s, sep)
    IN  IF k = -1 THEN <<s>>
        ELSE <<Prefix(s, k)>> \o Split(Suffix(s, k + 1), sep)

\* the name without its extension, as pathlib's PurePath.stem has it
PathStem(p) ==
    LET name == Name(p)
        k == RFind(name, ".")
    IN  IF 0 < k /\ k < Len(name) - 1 THEN Prefix(name, k) ELSE name

\* the candidates handled so far by process_all_hpps
Handled == 1..Len(raised)

ParsingOver == pc \in {"gate", "branch", "write", "done"}

\* create_h_files was entered
WritePhaseRan ==
    \E k \in 1..Len(out) : out[k] = "Proceeding"

HasGuard(path) == Contains(fs0[path], Guard)

\* a directory whose final segment is exactly "include"
NamedInclude(p) == p # <<>> /\ Name(p) = "include"

\* the ancestors named "include", nearest first
ExactIncludeRoots(path) == SelectSeq(Parents(path), NamedInclude)

\* the target stated from the parts of the name: same directory, same stem
AliasTarget(path) == Parent(path) \o <<PathStem(path) \o ".h">>

InProcessed(path) == \E m \in 1..Len(processed_hpps) : processed_hpps[m].path = path

InBad(path) == \E m \in 1..Len(bad_hpps) : bad_hpps[m] = PathStr(path)

HasAlias(path) == \E m \in 1..Len(h_files) : h_files[m].hpp.path = path

Occurrences(seq, x) == Cardinality({m \in 1..Len(seq) : seq[m] = x})

-----------------------------------------------------------------------------
(* C1: every candidate handled is recorded in exactly one of processed_hpps   *)
(* (HppFile succeeded) and bad_hpps (HppFile raised NoIncludeGuard or         *)
(* NoIncludeDirectory); a failure does not stop the candidates after it, and  *)
(* the summary's n_processed_hpps + len(bad_hpps) is the number of candidates *)
C1_Partition ==
    /\ pc # "crashed"
    /\ Len(raised) = i - 1
    /\ Len(processed_hpps) + Len(bad_hpps) = Len(raised)
    /\ \A k \in Handled :
          LET path == hpp_paths[k]
              r == HppFile(fs0, path)
          IN  IF r.ok
              THEN /\ Occurrences(processed_hpps, r.value) = 1
                   /\ ~InBad(path)
              ELSE /\ r.exc \in {"NoIncludeGuard", "NoIncludeDirectory"}
                   /\ Occurrences(bad_hpps, PathStr(path)) = 1
                   /\ ~InProcessed(path)
    /\ ParsingOver =>
          /\ Len(raised) = Len(hpp_paths)
          /\ summary[1].n_processed_hpps = Len(processed_hpps)
          /\ summary[1].bad_hpps = bad_hpps
          /\ summary[1].n_processed_hpps + Len(summary[1].bad_hpps) = Len(hpp_paths)

\* a failed candidate was followed by one that parsed
C1_Witness ==
    /\ pc = "done"
    /\ \E k, m \in Handled : k < m /\ raised[k] # "none" /\ raised[m] = "none"

(* C2: a dry run never writes; no run writes before the write phase, and the  *)
(* write phase starts only after every candidate has been parsed              *)
C2_WritesOnlyInWritePhase ==
    /\ ~argv_apply => fs = fs0 /\ writes = <<>>
    /\ pc \in {"discover", "parse", "gate", "branch"} => fs = fs0 /\ writes = <<>>
    /\ fs # fs0 => writes # <<>>
    /\ pc = "write" \/ writes # <<>> =>
          /\ WritePhaseRan
          /\ Len(raised) = Len(hpp_paths)
          /\ summary # <<>>

\* a dry run over a tree with a header that parses and one that does not
C2_Witness ==
    /\ pc = "done"
    /\ ~argv_apply
    /\ processed_hpps # <<>>
    /\ bad_hpps # <<>>

(* C3: with --apply the prompt is asked exactly when some file failed; the    *)
(* write phase runs iff --apply was given and either no file failed or the    *)
(* user confirmed                                                             *)
C3_PromptGate ==
    /\ pc \in {"discover", "parse", "gate"} => prompted = 0
    /\ pc \in {"branch", "write", "done"} =>
          /\ prompted \in {0, 1}
          /\ prompted = 1 <=> (argv_apply /\ bad_hpps # <<>>)
    /\ pc = "done" =>
          (WritePhaseRan <=>
              argv_apply /\ (bad_hpps = <<>> \/ (prompted = 1 /\ answer \in {"y", "Y"})))

\* the user declined although headers were ready to be written
C3_Witness ==
    /\ pc = "done"
    /\ prompted = 1
    /\ answer = "n"
    /\ processed_hpps # <<>>
    /\ writes = <<>>

(* C4: the write phase makes one write per parsed header, in order, at the    *)
(* header's path with the extension replaced by .h (same directory, same      *)
(* stem); the write replaces whatever the path held                           *)
C4_OneAliasPerHeader ==
    /\ Len(writes) <= Len(processed_hpps)
    /\ \A k \in 1..Len(writes) :
          LET src == processed_hpps[k].path
              w == writes[k]
          IN  /\ Parent(w.path) = Parent(src)
              /\ PathStem(w.path) = PathStem(src)
              /\ PathSuffix(w.path) = ".h"
              /\ w.path = AliasTarget(src)
              /\ w.path \in DOMAIN fs
              /\ (\A m \in (k + 1)..Len(writes) : writes[m].path # w.path)
                    => fs[w.path] = w.contents
    /\ \A p \in DOMAIN fs0 :
          (\A k \in 1..Len(writes) : writes[k].path # p) => p \in DOMAIN fs /\ fs[p] = fs0[p]
    /\ pc = "done" /\ WritePhaseRan =>
          /\ Len(writes) = Len(processed_hpps)
          /\ {writes[k].path : k \in 1..Len(writes)}
                = {AliasTarget(processed_hpps[k].path) : k \in 1..Len(processed_hpps)}

\* an alias that existed with another text was overwritten
C4_Witness ==
    /\ pc = "done"
    /\ \E k \in 1..Len(writes) :
          /\ writes[k].path \in DOMAIN fs0
          /\ fs0[writes[k].path] # writes[k].contents
          /\ fs[writes[k].path] = writes[k].contents

(* C5: a header without "#pragma once" fails with NoIncludeGuard, its path is *)
(* listed in bad_hpps, and no alias is built or written for it                *)
C5_MissingGuard ==
    /\ \A k \in Handled :
          LET path == hpp_paths[k]
          IN  ~HasGuard(path) =>
                 /\ raised[k] = "NoIncludeGuard"
                 /\ InBad(path)
                 /\ ~InProcessed(path)
                 /\ ~HasAlias(path)
    /\ Len(writes) <= Len(h_files)
    /\ \A m \in 1..Len(writes) : writes[m].path = h_files[m].path

\* a header under include/ without the guard, in a run that wrote other aliases
C5_Witness ==
    /\ pc = "done"
    /\ writes # <<>>
    /\ \E k \in Handled :
          /\ ~HasGuard(hpp_paths[k])
          /\ ExactIncludeRoots(hpp_paths[k]) # <<>>

(* C6: a header with no ancestor directory named "include", with or without   *)
(* the guard, fails with NoIncludeDirectory, is listed in bad_hpps and gets   *)
(* no alias                                                                   *)
C6_MissingIncludeRoot ==
    \A k \in Handled :
       LET path == hpp_paths[k]
       IN  ExactIncludeRoots(path) = <<>> =>
              /\ raised[k] = "NoIncludeDirectory"
              /\ InBad(path)
              /\ ~InProcessed(path)
              /\ ~HasAlias(path)

(* C7: the run goes Discover, Parse, optional prompt, Write or skip, Done,    *)
(* no step taken twice; it never ends on an exception and can always take a   *)
(* step until it has printed Done                                             *)
C7_Rank(p) ==
    CASE p = "discover" -> 0
      [] p = "parse" -> 1
      [] p = "gate" -> 2
      [] p = "branch" -> 3
      [] p = "write" -> 4
      [] p = "done" -> 5
      [] OTHER -> 6

C7_Outputs ==
    { <<"Processing", "Summary", "Skipping", "Done">>,
      <<"Processing", "Summary", "Continue?", "Skipping", "Done">>,
      <<"Processing", "Summary", "Proceeding", "Done">>,
      <<"Processing", "Summary", "Continue?", "Proceeding", "Done">> }

C7_Forward ==
    \/ /\ pc' # pc
       /\ C7_Rank(pc') > C7_Rank(pc)
       /\ pc # "discover" => hpp_paths' = hpp_paths
       /\ pc # "branch" => h_files' = h_files
    \/ /\ pc' = pc
       /\ pc = "parse"
       /\ i <= Len(hpp_paths)
       /\ i' = i + 1
       /\ hpp_paths' = hpp_paths
    \/ /\ pc' = pc
       /\ pc = "write"
       /\ j <= Len(h_files)
       /\ j' = j + 1
       /\ h_files' = h_files

C8_Banner ==
    LET d == Format(DISCLAIMER, ProgramName)
    IN  SubSeq(d, Find(d, "/*") + 1, Find(d, "*/") + 2)

C8_AliasText ==
    \A m \in 1..Len(h_files) :
       LET h == h_files[m]
           data == fs0[h.hpp.path]
       IN  /\ h.hpp.pretext = SubSeq(data, 1, Find(data, Guard) + Len(Guard))
           /\ h.contents =
                 C8_Banner \o "\n" \o h.hpp.pretext \o "\n" \o Warn \o "\n"
                    \o h.hpp.include \o "\n"
           /\ StartsWith(h.contents, "/****")

(* C9: for a header with the guard under a directory named "include", the    *)
(* path in the alias's last line, resolved against the nearest ancestor named *)
(* "include", is the header's path                                            *)
C9_Directive(contents) ==
    LET lines == Split(contents, "\n")
    IN  lines[Len(lines) - 1]

C9_DirectivePath(contents) ==
    LET d == C9_Directive(contents)
    IN  Split(SubSeq(d, Len("#include <") + 1, Len(d) - 1), "/")

C9_RoundTrip ==
    \A m \in 1..Len(h_files) :
       LET h == h_files[m]
           roots == ExactIncludeRoots(h.hpp.path)
       IN  roots # <<>> =>
              /\ StartsWith(C9_Directive(h.contents), "#include <")
              /\ EndsWith(C9_Directive(h.contents), ">")
              /\ roots[1] \o C9_DirectivePath(h.contents) = h.hpp.path

(* C10: the include root is the nearest ancestor whose final segment is      *)
(* exactly "include"; an ancestor such as "myinclude" is not selected, and a *)
(* header with only such ancestors fails with NoIncludeDirectory             *)
C10_ExactIncludeRoot ==
    \A k \in Handled :
       LET path == hpp_paths[k]
           roots == ExactIncludeRoots(path)
       IN  HasGuard(path) =>
              IF roots = <<>>
              THEN raised[k] = "NoIncludeDirectory" /\ InBad(path)
              ELSE /\ raised[k] = "none"
                   /\ \E m \in 1..Len(processed_hpps) :
                         /\ processed_hpps[m].path = path
                         /\ processed_hpps[m].include
                               = "#include <" \o RelStr(RelativeTo(path, roots[1])) \o ">"

====
